---- MODULE Spec2Model ----
(***************************************************************************)
(* Model of the pow20 miner (src/src/main.rs, src/src/api.rs): the shared  *)
(* Work State and Stats cells behind their tokio mutexes, the refresh      *)
(* loop, the search loop of main and the spawned submissions.              *)
(*                                                                         *)
(* Characters of a hex string are modelled as numbers: 0..15 is the hex    *)
(* digit of that value, 16 is a character that is no hex digit.  Bytes are *)
(* numbers 0..255, byte strings are sequences of bytes.                    *)
(***************************************************************************)
EXTENDS Integers, Sequences, FiniteSets, TLC

\* ------------------------------------------------------------------ bounds

\* Batches of the search loop that run to their end.
MaxIter == 1
\* Size of the index space of one batch (1_000_000 in main.rs:154).
BucketSize == 2
\* Times the external source changes the challenge it reports.
MaxChanges == 2
\* Largest difficulty handed to the difficulty test on its own.
MaxDifficulty == 66

\* ------------------------------------------------- constants of the program

DigestLen == 32
PreimageCap == 64
NonceLen == 8
TagLen == 4
Accepted == 201
U16Max == 65535

\* --------------------------------------------------------------- byte tools

RECURSIVE SumSeq(_)
SumSeq(s) == IF s = <<>> THEN 0 ELSE Head(s) + SumSeq(Tail(s))

Reverse(s) == [i \in 1..Len(s) |-> s[Len(s) + 1 - i]]

\* hex::decode: an odd length or a character that is no hex digit is an error.
HexDecode(s) ==
    IF Len(s) % 2 # 0 \/ \E i \in 1..Len(s) : s[i] \notin 0..15
    THEN [ok |-> FALSE, bytes |-> <<>>]
    ELSE [ok |-> TRUE,
          bytes |-> [i \in 1..(Len(s) \div 2) |-> 16 * s[2 * i - 1] + s[2 * i]]]

\* hex::encode: two hex digits per byte, high nibble first.
HexEncode(b) ==
    [i \in 1..(2 * Len(b)) |->
        IF i % 2 = 1 THEN b[(i + 1) \div 2] \div 16 ELSE b[i \div 2] % 16]

\* u32::to_be_bytes in the place of to_le_bytes (main.rs:172).
ToBeBytes(n) ==
    <<(n \div 16777216) % 256, (n \div 65536) % 256, (n \div 256) % 256, n % 256>>

\* u32::to_le_bytes
ToLeBytes(n) ==
    <<n % 256, (n \div 256) % 256, (n \div 65536) % 256, (n \div 16777216) % 256>>

\* ------------------------------------------------------------------ digests

ZeroDigest == [i \in 1..DigestLen |-> 0]
\* 0x00 0x3f 0xff ...: the first two nibbles are zero
Digest003f == [i \in 1..DigestLen |-> IF i = 1 THEN 0 ELSE IF i = 2 THEN 63 ELSE 255]
\* 0x01 0xff ...: the second nibble is not zero
Digest01 == [i \in 1..DigestLen |-> IF i = 1 THEN 1 ELSE 255]

DigestTable == <<ZeroDigest, Digest003f, Digest01>>

\* Hash::sha256d: a deterministic 32-byte digest of the preimage (src/hash.rs is
\* not part of the sources; the digest is picked from DigestTable by the preimage's
\* byte sum, so that the random bytes decide which digest an attempt gets).
Sha256d(preimage) == DigestTable[(SumSeq(preimage) % Len(DigestTable)) + 1]

\* The digests the difficulty test is tried on by itself: all zero but one byte,
\* and k zero nibbles followed by 0xf nibbles.
OneByteDigest(k, v) == [i \in 1..DigestLen |-> IF i = k THEN v ELSE 0]
ZeroPrefixDigest(k) ==
    [i \in 1..DigestLen |->
        IF 2 * i <= k THEN 0 ELSE IF 2 * i - 1 = k THEN 15 ELSE 255]
ProbeDigests ==
    {ZeroDigest, Digest003f, Digest01}
    \cup {OneByteDigest(k, v) : k \in 1..DigestLen, v \in {1, 16, 15, 240, 255}}
    \cup {ZeroPrefixDigest(k) : k \in 0..(2 * DigestLen)}

\* ------------------------------------------------------- difficulty test

\* main.rs:182-183 with the shift done wrongly (the low nibble tested first).
NibbleLowFirst(digest, i) ==
    LET rshift == (i % 2) * 4
    IN  (digest[(i \div 2) + 1] \div (2 ^ rshift)) % 16

\* main.rs:182-183: (solution[i / 2] >> ((1 - i % 2) << 2)) & 0x0f
Nibble(digest, i) ==
    LET rshift == (1 - (i % 2)) * 4
    IN  (digest[(i \div 2) + 1] \div (2 ^ rshift)) % 16

\* main.rs:181-186, from index i on: "none" when a nibble is not zero, "panic"
\* when the byte index is outside the digest (a Rust bounds check), "some" when
\* the loop runs to its end.
RECURSIVE CheckFrom(_, _, _)
CheckFrom(digest, difficulty, i) ==
    IF i >= difficulty THEN "some"
    ELSE IF (i \div 2) + 1 > Len(digest) THEN "panic"
    ELSE IF Nibble(digest, i) # 0 THEN "none"
    ELSE CheckFrom(digest, difficulty, i + 1)

DifficultyCheck(digest, difficulty) == CheckFrom(digest, difficulty, 0)

\* ----------------------------------------------------------------- work items

ChA == <<0, 0, 1, 1, 2, 2, 3, 3>>                \* "00112233": 4 bytes
ChB == <<10, 11, 12, 13, 0, 1, 2, 3, 4, 5>>      \* "abcd012345": 5 bytes
ChShort == <<0, 0, 15, 15>>                      \* "00ff": 2 bytes
ChBadHex == <<0, 16>>                            \* "0g": 16 is no hex digit
ChLong == [i \in 1..(2 * (PreimageCap - NonceLen + 1)) |-> (i % 2)]  \* 57 bytes

Ticker(c, l, d, t, i) ==
    [challenge |-> c, current_location |-> l, difficulty |-> d, ticker |-> t, id |-> i]

WorkA == Ticker(ChA, "locA", 0, "POW", "idA")
WorkA2 == Ticker(ChA, "locA2", 2, "POW2", "idA2")
WorkB == Ticker(ChB, "locB", 1, "POW", "idB")
WorkShort == Ticker(ChShort, "locS", 0, "POW", "idS")
WorkBadHex == Ticker(ChBadHex, "locX", 0, "POW", "idX")
WorkLong == Ticker(ChLong, "locL", 0, "POW", "idL")
WorkHard == Ticker(ChB, "locH", 2 * DigestLen + 1, "POW", "idH")

WorkItems == {WorkA, WorkA2, WorkB, WorkShort, WorkBadHex, WorkLong, WorkHard}

\* The cell before it is constructed.
NoWork == Ticker(<<>>, "", 0, "", "")

\* fetch_ticker: Ok(ticker) or Err
FetchErr == [ok |-> FALSE, item |-> NoWork]
FetchResults == {[ok |-> TRUE, item |-> w] : w \in WorkItems} \cup {FetchErr}
NoFetch == [ok |-> FALSE, item |-> Ticker(<<>>, "none", 0, "", "")]

\* submit_share: Ok((status, text)) or Err
SubmitErr == [ok |-> FALSE, status |-> 0]
SubmitResults == {[ok |-> TRUE, status |-> s] : s \in {Accepted, 400}} \cup {SubmitErr}
NoSubmit == [ok |-> FALSE, status |-> 0 - 1]

RandomChoices == {<<0, 0, 0, 0>>, <<1, 0, 0, 0>>}

\* Stats::default(), and the copy main holds outside an iteration.
NoStats == [accepted |-> 0, rejected |-> 0]

NoSolution == [nonce |-> <<>>, hash |-> <<>>, location |-> "", token_id |-> "",
               challenge |-> <<>>]

\* -------------------------------------------------------------------- tasks

Main == <<"main">>
Refresh == <<"refresh">>
Submit(i) == <<"submit", i>>
Free == <<>>
SubIds == 1..(MaxIter + 1)
SubTasks == {Submit(i) : i \in SubIds}
Tasks == {Main, Refresh} \cup SubTasks

VARIABLES
    pc,         \* position of every task
    work,       \* ctx.work: the Work State cell
    workLock,   \* the task that holds ctx.work's mutex, or Free
    stats,      \* ctx.stats: the Stats cell
    statsLock,  \* the task that holds ctx.stats' mutex, or Free
    mwork,      \* main: `work`, the snapshot of the iteration
    mresults,   \* main: `results`
    nonce,      \* main: `nonce`, the u16 counter
    ssol,       \* per submission: the Solution it was handed
    sres,       \* per submission: what submit_share returned
    fetched,    \* what the last fetch_ticker of update_work returned
    newJobs,    \* "new job!" lines printed by update_work
    lastOk,     \* challenge of the last successfully fetched ticker
    changes,    \* times a successfully fetched challenge differed from the one before
    iters,      \* batches run
    hits,       \* batches that collected at least one Solution
    spawned,    \* submissions spawned
    calls,      \* per submission: submit_share calls that returned
    mstats,     \* main: `stats`, the copy of the counters the report prints
    answers,    \* answers of submit_share so far, by kind of status
    source,     \* the results fetch_ticker may give in this run
    limit,      \* the number of batches this run is followed for
    pdigest, pdifficulty, pout,  \* the difficulty test on its own
    pnonce, pinc                 \* the counter increment on its own

sysvars == <<pc, work, workLock, stats, statsLock, mwork, mresults, nonce,
             ssol, sres, fetched, newJobs, lastOk, changes, iters, hits, spawned, calls,
             mstats, answers>>
envvars == <<source, limit>>
probevars == <<pdigest, pdifficulty, pout, pnonce, pinc>>
vars == <<sysvars, envvars, probevars>>

\* ------------------------------------------------------------ one attempt

\* main.rs:188-194 with location and id read from the shared cell, not the snapshot.
SolutionFromCell(w, challenge_bytes, data, solution) ==
    [nonce |-> HexEncode(data), hash |-> HexEncode(solution),
     location |-> work.current_location, token_id |-> work.id,
     challenge |-> challenge_bytes]

\* main.rs:188-194
MakeSolution(w, challenge_bytes, data, solution) ==
    [nonce |-> HexEncode(data), hash |-> HexEncode(solution),
     location |-> w.current_location, token_id |-> w.id,
     challenge |-> challenge_bytes]

\* main.rs:168-195, the closure for one prefix: the preimage is built in a
\* 64-byte buffer (slicing past it panics), hashed and tested.
Attempt(w, challenge_bytes, prefix, random) ==
    LET data == ToLeBytes(prefix) \o random
        n == Len(challenge_bytes)
    IN  IF n > PreimageCap \/ n + NonceLen > PreimageCap
        THEN [kind |-> "panic", sol |-> NoSolution]
        ELSE LET solution == Sha256d(challenge_bytes \o data)
                 check == DifficultyCheck(solution, w.difficulty)
             IN  IF check = "some"
                 THEN [kind |-> "some",
                       sol |-> MakeSolution(w, challenge_bytes, data, solution)]
                 ELSE [kind |-> check, sol |-> NoSolution]

\* main.rs:196-200: the Solutions of prefixes lo..BucketSize-1, in prefix order.
RECURSIVE Collect(_, _)
Collect(outs, lo) ==
    IF lo >= BucketSize THEN <<>>
    ELSE (IF outs[lo].kind = "some" THEN <<outs[lo].sol>> ELSE <<>>)
         \o Collect(outs, lo + 1)

\* main.rs:163-200: decode and reverse the challenge, run the batch. A panic of
\* the decode (unwrap) or of any attempt is a panic of main.
Batch(w, randoms) ==
    LET dec == HexDecode(w.challenge)
        challenge_bytes == Reverse(dec.bytes)
        outs == [p \in 0..(BucketSize - 1) |->
                    Attempt(w, challenge_bytes, p, randoms[p])]
    IN  IF ~dec.ok \/ \E p \in 0..(BucketSize - 1) : outs[p].kind = "panic"
        THEN [panic |-> TRUE, results |-> <<>>]
        ELSE [panic |-> FALSE, results |-> Collect(outs, 0)]

\* The random bytes of one batch, per prefix, and the batch of every ticker under
\* every such draw, tabulated as rows <<ticker, draw, outcome>>.
RandomDraws == [0..(BucketSize - 1) -> RandomChoices]
BatchTable == {<<w, randoms, Batch(w, randoms)>> : w \in WorkItems, randoms \in RandomDraws}

\* main.rs:223 on a u16: an overflow panics in a debug build and wraps in a
\* release build.
NoIncrement == [panic |-> FALSE, value |-> 0 - 1]

NonceIncrement(n) ==
    IF n + 1 > U16Max
    THEN {[panic |-> TRUE, value |-> n], [panic |-> FALSE, value |-> 0]}
    ELSE {[panic |-> FALSE, value |-> n + 1]}

\* ------------------------------------------------------------ update_work

\* main.rs:53-61 comparing the whole ticker instead of its challenge.
update_work_any_field(held, r) ==
    IF r.ok /\ held # r.item
    THEN [work |-> r.item, newjob |-> TRUE]
    ELSE [work |-> held, newjob |-> FALSE]

\* main.rs:53-61 replacing the cell on every successful fetch.
update_work_always(held, r) ==
    IF r.ok
    THEN [work |-> r.item, newjob |-> TRUE]
    ELSE [work |-> held, newjob |-> FALSE]

\* main.rs:53-61 taking a failed fetch for an empty ticker.
update_work_err_default(held, r) ==
    IF held.challenge # r.item.challenge
    THEN [work |-> r.item, newjob |-> TRUE]
    ELSE [work |-> held, newjob |-> FALSE]

\* main.rs:53-61: what the cell holds after a fetch that returned r, and whether
\* "new job!" is printed.
update_work(held, r) ==
    IF r.ok /\ held.challenge # r.item.challenge
    THEN [work |-> r.item, newjob |-> TRUE]
    ELSE [work |-> held, newjob |-> FALSE]

Alive == pc[Main] \notin {"exited", "crashed"}

\* main.rs:51: the lock is taken, and held over the fetch that follows.
UpdateWorkLock(t) ==
    /\ Alive
    /\ pc[t] = "uw_lock"
    /\ workLock = Free
    /\ workLock' = t
    /\ pc' = [pc EXCEPT ![t] = "uw_fetch"]
    /\ UNCHANGED <<work, stats, statsLock, mwork, mresults, nonce, ssol, sres,
                   fetched, newJobs, lastOk, changes, iters, hits, spawned, calls,
                   mstats, answers, probevars, envvars>>

\* main.rs:53-63: fetch_ticker returns r to the task, which holds the lock;
\* compare, replace and print, drop the lock and return to the caller, which goes
\* on at `ret`.
UpdateWorkFetch(t, r, ret) ==
    /\ Alive
    /\ pc[t] = "uw_fetch"
    /\ (r.ok /\ r.item.challenge # lastOk) => changes < MaxChanges
    /\ LET out == update_work(work, r)
       IN  /\ work' = out.work
           /\ newJobs' = IF out.newjob THEN newJobs + 1 ELSE newJobs
    /\ fetched' = r
    /\ lastOk' = IF r.ok THEN r.item.challenge ELSE lastOk
    /\ changes' = IF r.ok /\ r.item.challenge # lastOk THEN changes + 1 ELSE changes
    /\ workLock' = Free
    /\ pc' = [pc EXCEPT ![t] = ret]
    /\ UNCHANGED <<stats, statsLock, mwork, mresults, nonce, ssol, sres, iters, hits,
                   spawned, calls, mstats, answers, probevars,
                   envvars>>

\* ------------------------------------------------------------------- main

\* main.rs:112-115: the address is parsed; on an error main returns.
MainParse ==
    /\ pc[Main] = "parse"
    /\ \E ok \in BOOLEAN :
          pc' = [pc EXCEPT ![Main] = IF ok THEN "fetch0" ELSE "exited"]
    /\ UNCHANGED <<work, workLock, stats, statsLock, mwork, mresults, nonce,
                   ssol, sres, fetched, newJobs, lastOk, changes, iters, hits,
                   spawned, calls, mstats, answers, probevars,
                   envvars>>

\* main.rs:122-153 with the refresh loop spawned before the result of the initial
\* fetch is looked at.
MainFetchSpawnFirst ==
    /\ pc[Main] = "fetch0"
    /\ \E r \in source :
          IF r.ok
          THEN /\ work' = r.item
               /\ lastOk' = r.item.challenge
               /\ pc' = [pc EXCEPT ![Main] = "work_lock", ![Refresh] = "sleep"]
          ELSE /\ pc' = [pc EXCEPT ![Main] = "exited", ![Refresh] = "sleep"]
               /\ UNCHANGED <<work, lastOk>>
    /\ UNCHANGED <<workLock, stats, statsLock, mwork, mresults, nonce, ssol, sres,
                   fetched, newJobs, changes, iters, hits, spawned, calls, mstats,
                   answers, probevars, envvars>>

\* main.rs:122-153: the initial fetch; on an error main returns, else the
\* context is built from the ticker, the refresh loop is spawned and the search
\* loop is entered.
MainFetch ==
    /\ pc[Main] = "fetch0"
    /\ \E r \in source :
          IF r.ok
          THEN /\ work' = r.item
               /\ lastOk' = r.item.challenge
               /\ pc' = [pc EXCEPT ![Main] = "work_lock", ![Refresh] = "sleep"]
          ELSE /\ pc' = [pc EXCEPT ![Main] = "exited"]
               /\ UNCHANGED <<work, lastOk>>
    /\ UNCHANGED <<workLock, stats, statsLock, mwork, mresults, nonce, ssol, sres,
                   fetched, newJobs, changes, iters, hits, spawned, calls, mstats, answers, probevars,
                   envvars>>

\* main.rs:159-161: lock, clone, drop; nothing is awaited while the lock is held.
MainSnapshot ==
    /\ pc[Main] = "work_lock"
    /\ workLock = Free
    /\ mwork' = work
    /\ pc' = [pc EXCEPT ![Main] = "batch"]
    /\ UNCHANGED <<work, workLock, stats, statsLock, mresults, nonce, ssol, sres,
                   fetched, newJobs, lastOk, changes, iters, hits, spawned, calls,
                   mstats, answers, probevars, envvars>>

\* main.rs:163-202: the batch, which takes no lock and does not suspend. Only
\* batches that complete are counted (and bounded by the run's limit).
MainBatch ==
    /\ pc[Main] = "batch"
    /\ \E randoms \in RandomDraws :
          LET out == (CHOOSE row \in BatchTable : row[1] = mwork /\ row[2] = randoms)[3]
          IN  IF out.panic
              THEN /\ pc' = [pc EXCEPT ![Main] = "crashed"]
                   /\ UNCHANGED <<mresults, iters, hits>>
              ELSE /\ iters < limit
                   /\ pc' = [pc EXCEPT ![Main] = "stats_lock"]
                   /\ mresults' = out.results
                   /\ iters' = iters + 1
                   /\ hits' = IF out.results # <<>> THEN hits + 1 ELSE hits
    /\ UNCHANGED <<work, workLock, stats, statsLock, mwork, nonce, ssol, sres,
                   fetched, newJobs, lastOk, changes, spawned, calls, mstats, answers, probevars,
                   envvars>>

\* main.rs:203-204: lock the stats and clone them.
MainStatsLock ==
    /\ pc[Main] = "stats_lock"
    /\ statsLock = Free
    /\ statsLock' = Main
    /\ mstats' = stats
    /\ pc' = [pc EXCEPT ![Main] = "stats_held"]
    /\ UNCHANGED <<work, workLock, stats, mwork, mresults, nonce, ssol, sres,
                   fetched, newJobs, lastOk, changes, iters, hits, spawned, calls,
                   answers, probevars, envvars>>

\* main.rs:205-224: drop the stats lock; print the report from the copy (the tag
\* is challenge_bytes[0..4], which panics on fewer than 4 bytes); spawn
\* submit_work(&results[0]) when there are results; increment the counter. The
\* locals of the iteration are dropped.
MainReport ==
    /\ pc[Main] = "stats_held"
    /\ statsLock' = Free
    /\ mstats' = NoStats
    /\ LET challenge_bytes == Reverse(HexDecode(mwork.challenge).bytes)
           s == Submit(spawned + 1)
       IN  IF Len(challenge_bytes) < TagLen
           THEN /\ pc' = [pc EXCEPT ![Main] = "crashed"]
                /\ UNCHANGED <<mwork, mresults, nonce, ssol, spawned>>
           ELSE \E inc \in NonceIncrement(nonce) :
                  /\ nonce' = inc.value
                  /\ mwork' = NoWork
                  /\ mresults' = <<>>
                  /\ IF mresults # <<>>
                     THEN /\ ssol' = [ssol EXCEPT ![s] = mresults[1]]
                          /\ spawned' = spawned + 1
                          /\ pc' = [pc EXCEPT ![s] = "submit",
                                      ![Main] = IF inc.panic THEN "crashed"
                                                ELSE "work_lock"]
                     ELSE /\ pc' = [pc EXCEPT ![Main] = IF inc.panic THEN "crashed"
                                                       ELSE "work_lock"]
                          /\ UNCHANGED <<ssol, spawned>>
    /\ UNCHANGED <<work, workLock, stats, sres, fetched, newJobs, lastOk,
                   changes, iters, hits, calls, answers, probevars, envvars>>

\* ----------------------------------------------------------- refresh loop

\* main.rs:148-149: the 500 ms sleep is over and update_work takes the lock.
RefreshLock ==
    /\ Alive
    /\ pc[Refresh] = "sleep"
    /\ workLock = Free
    /\ workLock' = Refresh
    /\ pc' = [pc EXCEPT ![Refresh] = "uw_fetch"]
    /\ UNCHANGED <<work, stats, statsLock, mwork, mresults, nonce, ssol, sres,
                   fetched, newJobs, lastOk, changes, iters, hits, spawned, calls,
                   mstats, answers, probevars, envvars>>

\* main.rs:147-150: update_work returns and the loop sleeps again.
RefreshFetch == \E r \in source : UpdateWorkFetch(Refresh, r, "sleep")

\* ------------------------------------------------------------ submit_work

\* main.rs:80-96 counting every answer as accepted.
CountAlwaysAccepted(st, status) == [st EXCEPT !.accepted = st.accepted + 1]

\* main.rs:80-96 adding to the counters as they were at the start of the process,
\* so that the update of another submission is lost.
CountFromStart(st, status) ==
    IF status = Accepted
    THEN [st EXCEPT !.accepted = 1]
    ELSE [st EXCEPT !.rejected = 1]

\* main.rs:80-96: the counters after an answer with this status.
Count(st, status) ==
    IF status = Accepted
    THEN [st EXCEPT !.accepted = st.accepted + 1]
    ELSE [st EXCEPT !.rejected = st.rejected + 1]

\* main.rs:66-77, 99-101: submit_share returns r; the first print takes
\* solution.challenge[0..4], which panics on fewer than 4 bytes and ends the task.
\* After an Err the failure is printed and neither the result nor the Solution is
\* read again.
SubmitReturn(s) ==
    /\ Alive
    /\ pc[s] = "submit"
    /\ \E r \in SubmitResults :
          IF Len(ssol[s].challenge) < TagLen
          THEN /\ pc' = [pc EXCEPT ![s] = "panicked"]
               /\ ssol' = [ssol EXCEPT ![s] = NoSolution]
               /\ UNCHANGED <<sres, answers>>
          ELSE IF r.ok
          THEN /\ pc' = [pc EXCEPT ![s] = "stats_lock"]
               /\ sres' = [sres EXCEPT ![s] = r]
               /\ answers' = IF r.status = Accepted
                             THEN [answers EXCEPT !.accepted = @ + 1]
                             ELSE [answers EXCEPT !.rejected = @ + 1]
               /\ UNCHANGED ssol
          ELSE /\ pc' = [pc EXCEPT ![s] = "uw_lock"]
               /\ ssol' = [ssol EXCEPT ![s] = NoSolution]
               /\ UNCHANGED <<sres, answers>>
    /\ calls' = [calls EXCEPT ![s] = calls[s] + 1]
    /\ UNCHANGED <<work, workLock, stats, statsLock, mwork, mresults, nonce,
                   fetched, newJobs, lastOk, changes, iters, hits, spawned,
                   mstats, probevars, envvars>>

\* main.rs:78: lock the stats.
SubmitStatsLock(s) ==
    /\ Alive
    /\ pc[s] = "stats_lock"
    /\ statsLock = Free
    /\ statsLock' = s
    /\ pc' = [pc EXCEPT ![s] = "stats_held"]
    /\ UNCHANGED <<work, workLock, stats, mwork, mresults, nonce, ssol, sres,
                   fetched, newJobs, lastOk, changes, iters, hits, spawned, calls,
                   mstats, answers, probevars, envvars>>

\* main.rs:80-99 without the drop of line 96: the stats lock is kept over
\* update_work.
SubmitCountKeepLock(s) ==
    /\ Alive
    /\ pc[s] = "stats_held"
    /\ stats' = Count(stats, sres[s].status)
    /\ sres' = [sres EXCEPT ![s] = NoSubmit]
    /\ ssol' = [ssol EXCEPT ![s] = NoSolution]
    /\ pc' = [pc EXCEPT ![s] = "uw_lock"]
    /\ UNCHANGED <<work, workLock, statsLock, mwork, mresults, nonce,
                   fetched, newJobs, lastOk, changes, iters, hits, spawned, calls,
                   mstats, answers, probevars, envvars>>

\* main.rs:80-99: count the answer and drop the lock; nothing is awaited while
\* the lock is held. The result and the Solution are not read again.
SubmitCount(s) ==
    /\ Alive
    /\ pc[s] = "stats_held"
    /\ statsLock' = Free
    /\ stats' = Count(stats, sres[s].status)
    /\ sres' = [sres EXCEPT ![s] = NoSubmit]
    /\ ssol' = [ssol EXCEPT ![s] = NoSolution]
    /\ pc' = [pc EXCEPT ![s] = "uw_lock"]
    /\ UNCHANGED <<work, workLock, mwork, mresults, nonce,
                   fetched, newJobs, lastOk, changes, iters, hits, spawned, calls,
                   mstats, answers, probevars, envvars>>

\* main.rs:103
SubmitLockWork(s) == UpdateWorkLock(s)

\* main.rs:103-104: submit_work returns, the spawned task is over.
SubmitFetch(s) == \E r \in source : UpdateWorkFetch(s, r, "done")

\* --------------------------------------------------------- specifications

InitSys ==
    /\ pc = [t \in Tasks |-> IF t = Main THEN "parse" ELSE "unborn"]
    /\ work = NoWork
    /\ workLock = Free
    /\ stats = NoStats
    /\ statsLock = Free
    /\ mwork = NoWork
    /\ mresults = <<>>
    /\ nonce = 1
    /\ ssol = [s \in SubTasks |-> NoSolution]
    /\ sres = [s \in SubTasks |-> NoSubmit]
    /\ fetched = NoFetch
    /\ newJobs = 0
    /\ lastOk = <<>>
    /\ changes = 0
    /\ iters = 0
    /\ hits = 0
    /\ spawned = 0
    /\ calls = [s \in SubTasks |-> 0]
    /\ mstats = NoStats
    /\ answers = NoStats

ProbeIdle ==
    /\ pdigest = ZeroDigest
    /\ pdifficulty = 0
    /\ pout = "idle"
    /\ pnonce = 1
    /\ pinc = NoIncrement

\* The run that is followed from the start of the process: any ticker may be
\* fetched at any time.
Init ==
    /\ InitSys
    /\ ProbeIdle
    /\ source = FetchResults
    /\ limit = MaxIter

Next ==
    \/ MainParse
    \/ MainFetch
    \/ MainSnapshot
    \/ MainBatch
    \/ MainStatsLock
    \/ MainReport
    \/ RefreshLock
    \/ RefreshFetch
    \/ \E s \in SubTasks : SubmitReturn(s)
    \/ \E s \in SubTasks : SubmitStatsLock(s)
    \/ \E s \in SubTasks : SubmitCount(s)
    \/ \E s \in SubTasks : SubmitLockWork(s)
    \/ \E s \in SubTasks : SubmitFetch(s)

Spec == Init /\ [][Next]_vars

\* The run of a process whose source keeps reporting tickers the search can work
\* on, followed for one batch more, so that submissions overlap.
SteadySource == {[ok |-> TRUE, item |-> w] : w \in {WorkA, WorkB}} \cup {FetchErr}

SteadyInit ==
    /\ InitSys
    /\ ProbeIdle
    /\ source = SteadySource
    /\ limit = MaxIter + 1

SteadySpec == SteadyInit /\ [][Next]_vars

\* The difficulty test applied to one digest and one difficulty, and the
\* increment applied to one value of the counter.
ProbeNonces == {1, U16Max - 1, U16Max}

ProbeInit ==
    /\ InitSys
    /\ source = FetchResults
    /\ limit = MaxIter
    /\ pdigest \in ProbeDigests
    /\ pdifficulty \in 0..MaxDifficulty
    /\ pout = "pending"
    /\ pnonce \in ProbeNonces
    /\ pinc = NoIncrement

ProbeCheck ==
    /\ pout = "pending"
    /\ pout' = DifficultyCheck(pdigest, pdifficulty)
    /\ UNCHANGED <<pdigest, pdifficulty, pnonce, pinc, sysvars, envvars>>

ProbeIncrement ==
    /\ pinc = NoIncrement
    /\ pinc' \in NonceIncrement(pnonce)
    /\ UNCHANGED <<pdigest, pdifficulty, pout, pnonce, sysvars, envvars>>

ProbeNext == ProbeCheck \/ ProbeIncrement

ProbeSpec == ProbeInit /\ [][ProbeNext]_vars

\* ------------------------------------------------------------------ claims

\* A step in which update_work of task t gets its fetch result and returns.
FetchStep(t) == pc[t] = "uw_fetch" /\ pc'[t] # "uw_fetch"

InFlight == {"submit", "stats_lock", "stats_held", "uw_lock", "uw_fetch"}

\* C1: the Work State is replaced and "new job" is printed by a refresh exactly
\* when the fetched challenge differs from the held one, so the number of "new
\* job" events of refreshes is the number of consecutive challenge changes among
\* the successfully fetched tickers, whatever the number of refreshes.
C1_NewJobPerChange ==
    /\ [](newJobs = changes)
    /\ [][\A t \in Tasks : FetchStep(t) =>
            LET differs == fetched'.ok /\ fetched'.item.challenge # work.challenge
            IN  /\ differs <=> newJobs' = newJobs + 1
                /\ ~differs <=> newJobs' = newJobs
                /\ differs <=> work' # work
                /\ differs => work' = fetched'.item]_vars

\* one change was counted, and a later refresh fetched the held challenge with
\* other fields
C1_Witness ==
    /\ newJobs = 1
    /\ changes = 1
    /\ fetched.ok
    /\ fetched.item # work
    /\ fetched.item.challenge = work.challenge

\* C2: a refresh whose candidate has the held challenge changes no field of the
\* held ticker and prints nothing, whatever the candidate's other fields.
C2_SameChallengeNoOp ==
    [][\A t \in Tasks :
         (FetchStep(t) /\ fetched'.ok /\ fetched'.item.challenge = work.challenge)
            => (work' = work /\ newJobs' = newJobs)]_vars

C2_Witness ==
    /\ fetched.ok
    /\ fetched.item.challenge = work.challenge
    /\ fetched.item.difficulty # work.difficulty
    /\ fetched.item.current_location # work.current_location
    /\ fetched.item.ticker # work.ticker
    /\ fetched.item.id # work.id
    /\ newJobs = 0
    /\ workLock = Free

\* C3: a refresh whose fetch fails changes neither the held ticker nor the
\* counters, prints nothing, releases the lock, and its task goes on (the refresh
\* loop to its sleep, a submission to its normal end) while main keeps running.
C3_FetchFailureSkipped ==
    [][\A t \in Tasks :
         (FetchStep(t) /\ ~fetched'.ok)
            => /\ work' = work
               /\ stats' = stats
               /\ newJobs' = newJobs
               /\ workLock' = Free
               /\ pc'[t] = (IF t = Refresh THEN "sleep" ELSE "done")
               /\ pc'[Main] = pc[Main]]_vars

C3_Witness ==
    /\ fetched = FetchErr
    /\ work \in WorkItems
    /\ workLock = Free
    /\ pc[Refresh] = "sleep"
    /\ \E s \in SubTasks : pc[s] = "done"

\* C4: a submission whose submit call returned 201 adds exactly 1 to accepted and
\* leaves rejected; one whose call returned another status adds exactly 1 to
\* rejected and leaves accepted; one whose call failed changes neither counter;
\* and nothing else changes the counters.
C4_CountersPerOutcome ==
    /\ [](\A s \in SubTasks : pc[s] \in {"stats_lock", "stats_held"} => sres[s].ok)
    /\ [][/\ \A s \in SubTasks :
              /\ (pc[s] = "stats_held" /\ pc'[s] # "stats_held")
                    => stats' = (IF sres[s].status = Accepted
                                 THEN [accepted |-> stats.accepted + 1,
                                       rejected |-> stats.rejected]
                                 ELSE [accepted |-> stats.accepted,
                                       rejected |-> stats.rejected + 1])
              /\ (pc[s] = "submit" /\ pc'[s] # "submit")
                    => /\ stats' = stats
                       /\ pc'[s] = "stats_lock" <=> sres'[s].ok
          /\ stats' # stats
                => \E s \in SubTasks : pc[s] = "stats_held" /\ pc'[s] = "uw_lock"]_vars

C4_Witness ==
    /\ stats = [accepted |-> 0, rejected |-> 1]
    /\ \E s \in SubTasks : pc[s] = "done"

\* C5: every started submission triggers exactly one refresh after its outcome
\* was handled; stated on the final state: when the process has ended, no
\* started submission is left that has not done its refresh.
C5_SubmissionRefreshes ==
    pc[Main] = "crashed" => \A s \in SubTasks : pc[s] \in {"unborn", "done"}

\* C6: when main is about to take its snapshot, no unfinished submission holds
\* the Work State lock, so main need not wait for a step of a submission.
C6_SearchNeverWaits ==
    \A s \in SubTasks :
        (pc[Main] = "work_lock" /\ pc[s] \in InFlight) => workLock # s

\* C7: after every outer iteration as many submissions were spawned as batches
\* had a hit, and no submission made more than one submit call.
C7_SpawnIffHit ==
    /\ pc[Main] \notin {"stats_lock", "stats_held"} => spawned = hits
    /\ \A s \in SubTasks : calls[s] <= 1
    /\ \A s \in SubTasks : calls[s] = 1 => pc[s] # "unborn"

\* C8: the snapshot of an iteration is the ticker the cell held when it was
\* taken, in full, and every Solution of the batch carries the snapshot's
\* location, id and reversed challenge and passed the snapshot's difficulty,
\* whatever the cell holds by then.
C8_BatchUsesSnapshot ==
    /\ [](pc[Main] \in {"batch", "stats_lock", "stats_held"} => mwork \in WorkItems)
    /\ [](pc[Main] \in {"stats_lock", "stats_held"} =>
            \A k \in 1..Len(mresults) :
                /\ mresults[k].location = mwork.current_location
                /\ mresults[k].token_id = mwork.id
                /\ mresults[k].challenge = Reverse(HexDecode(mwork.challenge).bytes)
                /\ \A i \in 1..mwork.difficulty : mresults[k].hash[i] = 0)
    /\ [][(pc[Main] = "work_lock" /\ pc'[Main] = "batch") => mwork' = work]_vars

\* a batch with a Solution, run on a snapshot the cell no longer holds
C8_Witness ==
    /\ pc[Main] = "stats_lock"
    /\ mresults # <<>>
    /\ work.challenge # mwork.challenge
    /\ work.current_location # mwork.current_location

\* The nibble i of a digest as the claim defines it.
ClaimNibble(digest, i) ==
    IF i % 2 = 0 THEN digest[(i \div 2) + 1] \div 16 ELSE digest[(i \div 2) + 1] % 16

\* C9: for a 32-byte digest and a difficulty d in 0..64 the test yields a
\* Solution iff the nibbles 0..d-1 are all zero; with d = 0 it always does.
C9_DifficultyTest ==
    (pout # "pending" /\ pdifficulty <= 2 * DigestLen) =>
        /\ pout \in {"some", "none"}
        /\ pout = "some" <=> \A i \in 0..(pdifficulty - 1) : ClaimNibble(pdigest, i) = 0
        /\ pdifficulty = 0 => pout = "some"

\* three zero nibbles, then a nibble that is not zero: accepted at difficulty 3
C9_Witness ==
    /\ pout = "some"
    /\ pdifficulty = 3
    /\ pdigest[2] = 15

\* C10: with a difficulty above the digest's 64 nibbles the test rejects every
\* digest and never indexes the digest at 32 or beyond.
C10_NoOutOfBounds ==
    (pout # "pending" /\ pdifficulty > 2 * DigestLen) => pout = "none"

\* The preconditions of the search on a ticker: a hex challenge of at most 56
\* bytes and a difficulty of at most 64.
MeetsPreconditions(w) ==
    LET dec == HexDecode(w.challenge)
    IN  /\ dec.ok
        /\ Len(dec.bytes) <= PreimageCap - NonceLen
        /\ w.difficulty <= 2 * DigestLen

\* C11: a refresh that fetched a ticker violating the preconditions of the search
\* (challenge not hex, challenge longer than 56 bytes, difficulty above 64) keeps
\* the ticker held before.
C11_InvalidWorkRejected ==
    [][\A t \in Tasks :
         (FetchStep(t) /\ fetched'.ok /\ ~MeetsPreconditions(fetched'.item))
            => work' = work]_vars

\* C12: a challenge of fewer than 4 bytes is processed like any other: the
\* iteration on it never ends in a crash of main.
C12_ShortChallengeProcessed ==
    (pc[Main] = "crashed" /\ mwork \in WorkItems /\ HexDecode(mwork.challenge).ok)
        => Len(HexDecode(mwork.challenge).bytes) >= TagLen

LoopPositions == {"work_lock", "batch", "stats_lock", "stats_held"}

\* C13: when the address does not parse or the initial fetch fails, main exits
\* and no Work State was created, no refresh loop spawned, no batch run and no
\* submit call made; and main is in its search loop only with a Work State that
\* holds a fetched ticker and with the refresh loop spawned.
C13_StartupFailureExits ==
    /\ pc[Main] \in {"parse", "fetch0", "exited"} =>
            /\ work = NoWork
            /\ pc[Refresh] = "unborn"
            /\ \A s \in SubTasks : pc[s] = "unborn" /\ calls[s] = 0
            /\ iters = 0
            /\ workLock = Free
            /\ statsLock = Free
    /\ pc[Main] \in LoopPositions =>
            /\ work \in WorkItems
            /\ lastOk # <<>>
            /\ pc[Refresh] # "unborn"

C13_Witness ==
    /\ pc[Main] = "exited"
    /\ work = NoWork
    /\ pc[Refresh] = "unborn"

\* C14: the refresh loop runs forever; stated on a finite run: once spawned, the
\* refresh loop is never in a state in which it cannot take another step because
\* the process is over.
C14_RefreshRunsForever ==
    pc[Refresh] # "unborn" => Alive

\* The submissions that got an answer of this kind and have not counted it yet.
Uncounted(accepted) ==
    {s \in SubTasks : /\ pc[s] \in {"stats_lock", "stats_held"}
                      /\ (sres[s].status = Accepted) = accepted}

\* C15: no counter update is lost: accepted is the number of answers with status
\* 201 that were counted, rejected the number of those with another status; the
\* counters never decrease; and the copy main reports is the pair the cell held
\* at the instant of the copy.
C15_NoLostUpdate ==
    /\ [](stats.accepted + Cardinality(Uncounted(TRUE)) = answers.accepted)
    /\ [](stats.rejected + Cardinality(Uncounted(FALSE)) = answers.rejected)
    /\ [](pc[Main] = "stats_held" => mstats = stats)
    /\ [][/\ stats'.accepted >= stats.accepted
          /\ stats'.rejected >= stats.rejected
          /\ (pc[Main] = "stats_lock" /\ pc'[Main] = "stats_held") => mstats' = stats]_vars

\* the second submission has counted its rejected answer while the first, which
\* was answered 201, holds the lock to count its own
C15_Witness ==
    /\ pc[Submit(1)] = "stats_held"
    /\ sres[Submit(1)].status = Accepted
    /\ pc[Submit(2)] \in {"uw_lock", "uw_fetch", "done"}
    /\ stats = [accepted |-> 0, rejected |-> 1]
    /\ answers = [accepted |-> 1, rejected |-> 1]

\* C16: no task holds the Work State lock or the Stats lock while its fetch or
\* its submit call is in flight.
C16_NoLockOverExternalCall ==
    \A t \in Tasks :
        pc[t] \in {"fetch0", "uw_fetch", "submit"} => (workLock # t /\ statsLock # t)

\* C17: every Solution of a batch has a nonce field that encodes 8 bytes, the
\* little-endian prefix of an index of the batch followed by 4 random bytes; its
\* challenge is the reversed decoded challenge of the snapshot; its hash is the
\* digest of that challenge followed by that nonce, a preimage of challenge
\* length + 8 bytes; and the nonces of one batch are pairwise distinct.
C17_PreimageAndNonce ==
    pc[Main] \in {"stats_lock", "stats_held"} =>
        \A k \in 1..Len(mresults) :
            LET r == mresults[k]
                dec == HexDecode(r.nonce)
                data == dec.bytes
                challenge_bytes == Reverse(HexDecode(mwork.challenge).bytes)
            IN  /\ dec.ok
                /\ Len(data) = NonceLen
                /\ \E prefix \in 0..(BucketSize - 1) :
                      data[1] + 256 * data[2] + 65536 * data[3] + 16777216 * data[4]
                          = prefix
                /\ SubSeq(data, TagLen + 1, NonceLen) \in RandomChoices
                /\ r.challenge = challenge_bytes
                /\ Len(r.challenge \o data) = Len(challenge_bytes) + NonceLen
                /\ r.hash = HexEncode(Sha256d(r.challenge \o data))
                /\ \A j \in 1..Len(mresults) : j # k => mresults[j].nonce # r.nonce

\* a batch with two Solutions, the second one of prefix 1
C17_Witness ==
    /\ pc[Main] = "stats_lock"
    /\ Len(mresults) = 2
    /\ HexDecode(mresults[2].nonce).bytes[1] = 1
    /\ mresults[1].nonce # mresults[2].nonce

\* A task that waits for a lock another task holds.
LockWaiting(t) ==
    \/ pc[t] \in {"work_lock", "uw_lock"} /\ workLock # Free
    \/ pc[t] = "sleep" /\ workLock # Free
    \/ pc[t] = "stats_lock" /\ statsLock # Free

LiveTasks == {t \in Tasks : pc[t] \notin {"unborn", "done", "panicked", "exited", "crashed"}}

\* C18: no task holds both locks at once; the holder of a lock is a task that
\* does not wait for a lock; so while the process lives, not all of its live
\* tasks wait for locks.
C18_NeverBothLocks ==
    /\ \A t \in Tasks : ~(workLock = t /\ statsLock = t)
    /\ workLock # Free => workLock \in LiveTasks /\ pc[workLock] = "uw_fetch"
    /\ statsLock # Free => statsLock \in LiveTasks /\ pc[statsLock] = "stats_held"
    /\ (Alive /\ LiveTasks # {}) => \E t \in LiveTasks : ~LockWaiting(t)

\* both locks are held, by two tasks, and main waits for the Work State lock
C18_Witness ==
    /\ workLock # Free
    /\ statsLock # Free
    /\ workLock # statsLock
    /\ pc[Main] = "work_lock"

\* C19: the increment of the counter never overflows the 16 bits and never stops
\* the loop: it yields the value plus one, within 1..65535.
C19_CounterNeverOverflows ==
    pinc # NoIncrement =>
        /\ ~pinc.panic
        /\ pinc.value = pnonce + 1
        /\ pinc.value \in 1..U16Max

====
